---- MODULE Spec2Model ----
(***************************************************************************)
(* Sender side of the kitty file-transfer kitten                           *)
(* (kittens/transfer/send.py): the SendManager state machine, the Send     *)
(* handler and the event loop that drives it.                              *)
(*                                                                         *)
(* Every handler of the program runs to completion on the loop thread, so  *)
(* each handler is one action. Handlers are written as operators on a      *)
(* record s that holds the mutable objects                                 *)
(*     s.files[i]   the File objects of the plan (index i = file id)       *)
(*     s.manager    the SendManager fields                                 *)
(*     s.handler    the Send fields                                        *)
(*     s.loop       the Loop: pending callbacks, write buffer, exit        *)
(*     s.wire       every protocol frame written so far, in order          *)
(* so that a handler calling another handler is operator composition.      *)
(*                                                                         *)
(* Python's 0-based plan index i and the file id hex(i+1) are both         *)
(* represented by the number i+1; None is represented by -1.               *)
(* Rendering state that no protocol decision reads (timestamps, spinner,   *)
(* the ProgressTracker's rate window and per-file counters) is left out;   *)
(* of the tracker only total_transferred is kept. manager.produced is a    *)
(* history field: the sum of the uncompressed sizes that next_chunks has   *)
(* produced so far.                                                        *)
(*                                                                         *)
(* Two functions that run outside the loop are modelled on their own:      *)
(* File.next_chunk called until the file is finished (ChunkSpec) and the   *)
(* planner files_for_send (PlanSpec).                                      *)
(***************************************************************************)
EXTENDS Integers, Sequences, FiniteSets, TLC

\* ------------------------------------------------------------------ bounds
NumFiles == 2
\* largest regular file, in units of half a read (ChunkSz = 2 units)
MaxFileSize == 3
\* most 4096-byte frames the compressor yields for one read
MaxFrames == 2
\* external events of one session: inbound protocol frames and terminal
\* input (text, Escape, interrupt, terminate)
MaxEvents == 5
\* loop_tick callbacks pending at once
MaxTicks == 2
\* paths on the command line, and entries of one directory
MaxPaths == 2
\* distinct (device, inode) pairs of the source tree
MaxInodes == 2

\* --------------------------------------------------------------- constants
\* next_chunk's read size (1 MiB), in units of 512 KiB
ChunkSz == 2
None == -1

Files == 1..NumFiles
RequestId == "rid"

FileTypes == {"regular", "directory", "symlink", "link"}
FileState == {"waiting_for_start", "waiting_for_data", "transmitting", "finished", "acknowledged"}
SendState == {"waiting_for_permission", "permission_granted", "permission_denied", "canceled"}

\* args and ans hold the argument and the result of a function that is
\* examined on its own (File.next_chunk, files_for_send); a session does
\* not use them.
VARIABLES cli_opts, files, manager, handler, loop, wire, n_events, args, ans

vars == <<cli_opts, files, manager, handler, loop, wire, n_events, args, ans>>

\* The mutable objects as one value, and its write-back.
Cur == [files |-> files, manager |-> manager, handler |-> handler, loop |-> loop, wire |-> wire]

Becomes(s) ==
    /\ files' = s.files
    /\ manager' = s.manager
    /\ handler' = s.handler
    /\ loop' = s.loop
    /\ wire' = s.wire

Min(S) == CHOOSE x \in S : \A y \in S : x <= y
Max2(a, b) == IF a >= b THEN a ELSE b
Min2(a, b) == IF a <= b THEN a ELSE b

Frame(action, fid) == [action |-> action, file_id |-> fid]

\* ------------------------------------------------------------------- File
\* File.__init__ for the plan entry of type ft: size sz, compressor output
\* of zf frames per full read (0: the compressor buffers until its flush).
\* remote_initial_size is None (-1) until a STARTED frame reports it; the
\* receiver reports a size >= 0, here 0.
File(ft, sz, zf) ==
    [file_type |-> ft, file_size |-> sz, zframes |-> zf, ttype |-> "simple",
     state |-> "waiting_for_start", err_msg |-> "", actual_file |-> None,
     remote_initial_size |-> None]

\* Length in bytes of the UTF-8 link target: path:<readlink literal> for a
\* symlink (file_size is the length of the literal), the one-digit file id
\* of the target for a hard link.
target_len(f) == IF f.file_type = "symlink" THEN 5 + f.file_size ELSE 1

\* ZlibCompressor.compress (+ flush on the last read): the number of
\* 4096-byte frames of output. The flush output is never empty.
compress(f, is_last) == IF is_last THEN Max2(1, f.zframes) ELSE f.zframes

\* next_chunk that takes only an empty read for the end of the file
next_chunk_eof_only(f) ==
    IF f.file_type \in {"symlink", "link"}
    THEN [file |-> [f EXCEPT !.state = "finished"], clen |-> 1, usz |-> target_len(f)]
    ELSE LET pos0 == IF f.actual_file = None THEN 0 ELSE f.actual_file
             n == Max2(0, Min2(ChunkSz, f.file_size - pos0))
             pos1 == pos0 + n
             is_last == n = 0
         IN [file |-> IF is_last
                      THEN [f EXCEPT !.state = "finished", !.actual_file = None]
                      ELSE [f EXCEPT !.actual_file = pos1],
             clen |-> compress(f, is_last),
             usz |-> n]

\* File.next_chunk: <<file after the call, frames of compressed output,
\* uncompressed size>>
next_chunk(f) ==
    IF f.file_type \in {"symlink", "link"}
    THEN [file |-> [f EXCEPT !.state = "finished"], clen |-> 1, usz |-> target_len(f)]
    ELSE LET pos0 == IF f.actual_file = None THEN 0 ELSE f.actual_file
             n == Max2(0, Min2(ChunkSz, f.file_size - pos0))
             pos1 == pos0 + n
             is_last == n = 0 \/ pos1 >= f.file_size
         IN [file |-> IF is_last
                      THEN [f EXCEPT !.state = "finished", !.actual_file = None]
                      ELSE [f EXCEPT !.actual_file = pos1],
             clen |-> compress(f, is_last),
             usz |-> n]

\* ------------------------------------------------------------ the Loop
\* Handler.write / print / cmd.*: bytes are queued on the loop's write
\* buffer; the loop reports the drain with on_writing_finished.
write(s) == [s EXCEPT !.loop.write_buf = TRUE]

\* Send.send_payload for a sequence of frames
send_payload(s, frames) ==
    IF frames = <<>> THEN s ELSE write([s EXCEPT !.wire = s.wire \o frames])

\* Loop.quit: the loop stops, no further callback runs. path names the
\* call site, for the claims that speak of one exit path.
quit_loop(s, code, path) ==
    [s EXCEPT !.loop.running = FALSE, !.loop.return_code = code, !.loop.exit_path = path]

\* asyncio_loop.call_soon(self.loop_tick)
call_soon_loop_tick(s) == [s EXCEPT !.loop.ticks = @ + 1]

\* ------------------------------------------------------------ rendering
\* Send.draw_progress: writes the progress lines and re-arms the spinner timer (call_later(interval, refresh_progress)).
draw_progress(s) ==
    write([s EXCEPT !.handler.done_files = <<>>, !.loop.refresh = TRUE])

\* Send.refresh_progress: erase_progress, then draw_progress
refresh_progress(s) == draw_progress(write(s))

\* Send.on_file_done
on_file_done(s, i) ==
    [s EXCEPT !.handler.done_files = Append(@, i),
              !.handler.failed_files = IF s.files[i].err_msg # "" THEN Append(@, i) ELSE @,
              !.loop.refresh = TRUE]

\* ------------------------------------------------------ ProgressTracker
\* ProgressTracker.on_transfer
on_transfer(s, amt) == [s EXCEPT !.manager.progress.total_transferred = @ + amt]

\* ---------------------------------------------------------- SendManager
\* SendManager.update_collective_statuses
update_collective_statuses(s) ==
    [s EXCEPT !.manager.all_acknowledged = \A i \in Files : s.files[i].state = "acknowledged",
              !.manager.all_started = \A i \in Files : s.files[i].state # "waiting_for_start"]

\* SendManager.active_file (property): an index, or None
active_file(s) ==
    IF s.manager.active_idx # None /\ s.files[s.manager.active_idx].state = "transmitting"
    THEN s.manager.active_idx
    ELSE None

\* SendManager.activate_next_ready_file
activate_next_ready_file(s) ==
    LET s1 == IF s.manager.active_idx # None THEN on_file_done(s, s.manager.active_idx) ELSE s
        ready == {i \in Files : s1.files[i].state = "transmitting"}
    IN update_collective_statuses(
           [s1 EXCEPT !.manager.active_idx = IF ready = {} THEN None ELSE Min(ready)])

\* The read loop of next_chunks (lines 319-321): call next_chunk on the
\* active file until it returns output or the file is finished.
\* <<state, frames of output>>
RECURSIVE read_loop(_, _, _)
read_loop(s, af, clen) ==
    IF s.files[af].state # "finished" /\ clen = 0
    THEN LET r == next_chunk(s.files[af])
         IN read_loop([s EXCEPT !.files[af] = r.file,
                                !.manager.current_chunk_uncompressed_sz = @ + r.usz,
                                !.manager.produced = @ + r.usz],
                      af, r.clen)
    ELSE [st |-> s, clen |-> clen]

\* The framing loop of next_chunks (lines 326-330): clen frames carrying the
\* file's id, the last one end_data iff the file is now finished.
chunk_frames(af, clen, is_last) ==
    [k \in 1..clen |-> Frame(IF is_last /\ k = clen THEN "end_data" ELSE "data", af)]

\* SendManager.next_chunks: <<state, frames yielded>>
next_chunks(s) ==
    LET s1 == IF active_file(s) = None THEN activate_next_ready_file(s) ELSE s
        af == active_file(s1)
    IN IF af = None
       THEN [st |-> s1, frames |-> <<>>]
       ELSE LET r == read_loop([s1 EXCEPT !.manager.current_chunk_uncompressed_sz = 0], af, 0)
            IN [st |-> r.st,
                frames |-> chunk_frames(af, r.clen, r.st.files[af].state = "finished")]

\* SendManager.send_file_metadata: one file frame per plan entry
SendManager_send_file_metadata(s) == [i \in 1..NumFiles |-> Frame("file", i)]

\* SendManager.start_transfer: the send frame
SendManager_start_transfer(s) == <<Frame("send", 0)>>

\* on_file_status_update that rescans the files only after a terminal
\* status, not after STARTED
on_file_status_update_no_rescan(s, ftc) ==
    IF ftc.file_id \notin Files
    THEN s
    ELSE LET i == ftc.file_id
             file == s.files[i]
         IN IF ftc.status = "STARTED"
            THEN [s EXCEPT !.files[i].remote_initial_size = 0,
                           !.files[i].state =
                       IF file.file_type = "directory" THEN "finished"
                       ELSE IF file.ttype = "rsync" THEN "waiting_for_data"
                       ELSE "transmitting"]
            ELSE LET s1 == [s EXCEPT !.files[i].state = "acknowledged",
                                     !.files[i].err_msg = IF ftc.status # "OK" THEN ftc.status ELSE @]
                     s2 == IF s1.manager.active_idx # None /\ i = s1.manager.active_idx
                           THEN [on_file_done(s1, i) EXCEPT !.manager.active_idx = None]
                           ELSE s1
                 IN update_collective_statuses(s2)

\* on_file_status_update that keeps active_idx when the active file gets
\* its terminal status
on_file_status_update_keeps_active(s, ftc) ==
    IF ftc.file_id \notin Files
    THEN s
    ELSE LET i == ftc.file_id
             file == s.files[i]
         IN IF ftc.status = "STARTED"
            THEN update_collective_statuses(
                   [s EXCEPT !.files[i].remote_initial_size = 0,
                             !.files[i].state =
                       IF file.file_type = "directory" THEN "finished"
                       ELSE IF file.ttype = "rsync" THEN "waiting_for_data"
                       ELSE "transmitting"])
            ELSE LET s1 == [s EXCEPT !.files[i].state = "acknowledged",
                                     !.files[i].err_msg = IF ftc.status # "OK" THEN ftc.status ELSE @]
                     s2 == IF s1.manager.active_idx # None /\ i = s1.manager.active_idx
                           THEN on_file_done(s1, i)
                           ELSE s1
                 IN update_collective_statuses(s2)

\* on_file_status_update that reports file_done for every terminal status,
\* whether or not the file is the active one
on_file_status_update_always_done(s, ftc) ==
    IF ftc.file_id \notin Files
    THEN s
    ELSE LET i == ftc.file_id
             file == s.files[i]
         IN IF ftc.status = "STARTED"
            THEN update_collective_statuses(
                   [s EXCEPT !.files[i].remote_initial_size = 0,
                             !.files[i].state =
                       IF file.file_type = "directory" THEN "finished"
                       ELSE IF file.ttype = "rsync" THEN "waiting_for_data"
                       ELSE "transmitting"])
            ELSE LET s1 == [s EXCEPT !.files[i].state = "acknowledged",
                                     !.files[i].err_msg = IF ftc.status # "OK" THEN ftc.status ELSE @]
                     s2 == [on_file_done(s1, i) EXCEPT !.manager.active_idx =
                               IF i = s1.manager.active_idx THEN None ELSE @]
                 IN update_collective_statuses(s2)

\* SendManager.on_file_status_update. ftc.file_id = 0 stands for the empty
\* id; an id outside the plan is not in fid_map.
on_file_status_update(s, ftc) ==
    IF ftc.file_id \notin Files
    THEN s
    ELSE LET i == ftc.file_id
             file == s.files[i]
         IN IF ftc.status = "STARTED"
            THEN update_collective_statuses(
                   [s EXCEPT !.files[i].remote_initial_size = 0,
                             !.files[i].state =
                       IF file.file_type = "directory" THEN "finished"
                       ELSE IF file.ttype = "rsync" THEN "waiting_for_data"
                       ELSE "transmitting"])
            ELSE LET s1 == [s EXCEPT !.files[i].state = "acknowledged",
                                     !.files[i].err_msg = IF ftc.status # "OK" THEN ftc.status ELSE @]
                     s2 == IF s1.manager.active_idx # None /\ i = s1.manager.active_idx
                           THEN [on_file_done(s1, i) EXCEPT !.manager.active_idx = None]
                           ELSE s1
                 IN update_collective_statuses(s2)

\* SendManager.on_file_transfer_response
SendManager_on_file_transfer_response(s, ftc) ==
    IF ftc.action = "status"
    THEN IF ftc.file_id # 0
         THEN on_file_status_update(s, ftc)
         ELSE [s EXCEPT !.manager.state =
                   IF ftc.status = "OK" THEN "permission_granted" ELSE "permission_denied"]
    ELSE s

\* ----------------------------------------------------------------- Send
\* send_file_metadata without its file_metadata_sent guard
send_file_metadata_unguarded(s) ==
    [send_payload(s, SendManager_send_file_metadata(s)) EXCEPT !.handler.file_metadata_sent = TRUE]

\* Send.send_file_metadata
send_file_metadata(s) ==
    IF ~s.handler.file_metadata_sent
    THEN [send_payload(s, SendManager_send_file_metadata(s)) EXCEPT !.handler.file_metadata_sent = TRUE]
    ELSE s

\* Send.transfer_finished
transfer_finished(s) ==
    [send_payload(s, <<Frame("finish", 0)>>) EXCEPT
        !.handler.quit_after_write_code = IF s.handler.failed_files # <<>> THEN 1 ELSE 0]

\* transmit_next_chunk finishing on all_started instead of all_acknowledged
transmit_next_chunk_on_started(s) ==
    LET r == next_chunks(s)
        s1 == send_payload(r.st, r.frames)
    IN IF s1.manager.all_started THEN transfer_finished(s1) ELSE s1

\* Send.transmit_next_chunk
transmit_next_chunk(s) ==
    LET r == next_chunks(s)
        s1 == send_payload(r.st, r.frames)
    IN IF s1.manager.all_acknowledged THEN transfer_finished(s1) ELSE s1

\* Send.start_transfer
Send_start_transfer(s) ==
    LET s1 == IF active_file(s) = None THEN activate_next_ready_file(s) ELSE s
    IN IF active_file(s1) # None
       THEN draw_progress(transmit_next_chunk([s1 EXCEPT !.handler.transmit_started = TRUE]))
       ELSE s1

\* Send.print_continue_msg
print_continue_msg(s) == write(s)

\* Send.print_check_paths
print_check_paths(s) ==
    IF s.handler.check_paths_printed
    THEN s
    ELSE print_continue_msg(write([s EXCEPT !.handler.check_paths_printed = TRUE]))

\* Send.check_for_transmit_ok
check_for_transmit_ok(s) ==
    IF s.manager.state # "permission_granted"
    THEN s
    ELSE IF cli_opts.confirm_paths
         THEN IF s.manager.all_started THEN print_check_paths(s) ELSE s
         ELSE Send_start_transfer(s)

\* Send.loop_tick
loop_tick(s) ==
    IF s.manager.state = "waiting_for_permission"
    THEN s
    ELSE IF s.handler.transmit_started
         THEN refresh_progress(transmit_next_chunk(s))
         ELSE check_for_transmit_ok(s)

\* Send.on_writing_finished
on_writing_finished(s) ==
    LET chunk_transmitted == s.manager.current_chunk_uncompressed_sz # None
        s1 == IF chunk_transmitted
              THEN [on_transfer(s, s.manager.current_chunk_uncompressed_sz)
                       EXCEPT !.manager.current_chunk_uncompressed_sz = None]
              ELSE s
    IN IF s1.handler.quit_after_write_code # None
       THEN quit_loop(s1, s1.handler.quit_after_write_code, "completion")
       ELSE IF s1.manager.state = "permission_granted"
               /\ (~s1.handler.transmit_started \/ chunk_transmitted)
            THEN call_soon_loop_tick(s1)
            ELSE s1

\* abort_transfer that does not schedule the forced quit
abort_transfer_no_timer(s) ==
    [send_payload(s, <<Frame("cancel", 0)>>) EXCEPT !.manager.state = "canceled"]

\* Send.abort_transfer
abort_transfer(s) ==
    [send_payload(s, <<Frame("cancel", 0)>>) EXCEPT
        !.manager.state = "canceled",
        !.loop.timers = @ + 1]

\* permission_response that reports the refusal but does not quit
permission_response_no_quit(s, before) ==
    IF before = "waiting_for_permission"
    THEN IF s.manager.state = "permission_denied"
         THEN [st |-> write(s), returned |-> FALSE]
         ELSE IF s.manager.state = "permission_granted"
              THEN [st |-> send_file_metadata(write(s)), returned |-> FALSE]
              ELSE [st |-> s, returned |-> FALSE]
    ELSE [st |-> s, returned |-> FALSE]

\* Send.on_file_transfer_response, lines 401-410: what follows a change of
\* the global state away from waiting_for_permission. The last field says
\* whether the handler returned.
permission_response(s, before) ==
    IF before = "waiting_for_permission"
    THEN IF s.manager.state = "permission_denied"
         THEN [st |-> quit_loop(write(s), 1, "denied"), returned |-> TRUE]
         ELSE IF s.manager.state = "permission_granted"
              THEN [st |-> send_file_metadata(write(s)), returned |-> FALSE]
              ELSE [st |-> s, returned |-> FALSE]
    ELSE [st |-> s, returned |-> FALSE]

\* on_file_transfer_response testing for the canceled state before it tests
\* for the CANCELED status
Send_on_file_transfer_response_canceled_first(s, ftc) ==
    IF s.handler.quit_after_write_code # None THEN s
    ELSE IF ftc.id # RequestId THEN s
    ELSE IF s.manager.state = "canceled" THEN s
    ELSE IF ftc.status = "CANCELED" THEN quit_loop(s, 1, "canceled_by_receiver")
    ELSE LET before == s.manager.state
             r == permission_response(SendManager_on_file_transfer_response(s, ftc), before)
         IN IF r.returned THEN r.st ELSE call_soon_loop_tick(r.st)

\* Send.on_file_transfer_response
Send_on_file_transfer_response(s, ftc) ==
    IF s.handler.quit_after_write_code # None THEN s
    ELSE IF ftc.id # RequestId THEN s
    ELSE IF ftc.status = "CANCELED" THEN quit_loop(s, 1, "canceled_by_receiver")
    ELSE IF s.manager.state = "canceled" THEN s
    ELSE LET before == s.manager.state
             r == permission_response(SendManager_on_file_transfer_response(s, ftc), before)
         IN IF r.returned THEN r.st ELSE call_soon_loop_tick(r.st)

\* Send.on_interrupt
on_interrupt(s) ==
    IF s.handler.quit_after_write_code # None THEN s
    ELSE IF s.manager.state = "canceled" THEN write(s)
    ELSE abort_transfer(write(s))

\* Send.on_text
on_text(s, text) ==
    IF s.handler.quit_after_write_code # None THEN s
    ELSE IF s.handler.check_paths_printed /\ ~s.handler.transmit_started
         THEN IF text = "y" THEN Send_start_transfer(s)
              ELSE IF text = "n" THEN write(abort_transfer(s))
              ELSE print_continue_msg(s)
         ELSE s

\* Send.on_key for the Escape key (no other key is handled)
on_key(s) ==
    IF s.handler.quit_after_write_code # None THEN s
    ELSE IF s.handler.check_paths_printed /\ ~s.handler.transmit_started
         THEN write(abort_transfer(s))
         ELSE on_interrupt(s)

\* Send.on_term
on_term(s) ==
    IF s.handler.quit_after_write_code # None THEN s
    ELSE abort_transfer(write(s))

\* Send.initialize
initialize(s) ==
    LET s1 == send_payload(s, SendManager_start_transfer(s))
        s2 == IF cli_opts.permissions_password THEN send_file_metadata(s1) ELSE s1
    IN write([s2 EXCEPT !.loop.initialized = TRUE])

\* ------------------------------------------------------------ the session
\* files_for_send: the plans of NumFiles entries. A regular file takes more
\* than one read; its compressor either buffers until the flush or yields
\* MaxFrames frames per read. A hard link has the inode, so the size, of a
\* regular file earlier in the plan (lines 176-182).
PlanEntries ==
    {File("regular", MaxFileSize, 0), File("regular", MaxFileSize, MaxFrames),
     File("directory", 0, 0), File("symlink", 1, 0), File("link", MaxFileSize, 0)}

Plans ==
    {p \in [Files -> PlanEntries] :
        \A i \in Files : p[i].file_type = "link" =>
            \E j \in 1..(i - 1) : p[j].file_type = "regular"}

\* text typed at the terminal, as on_text distinguishes it
Texts == {"y", "n", "x"}

\* status frames of the receiver: for the session (file_id 0: granted,
\* refused, canceled) or for one file (started, done, failed), and one
\* frame of another request
Inbound ==
    {[id |-> RequestId, action |-> "status", file_id |-> 0, status |-> st] :
        st \in {"OK", "EPERM", "CANCELED"}}
    \cup {[id |-> RequestId, action |-> "status", file_id |-> i, status |-> st] :
        i \in Files, st \in {"STARTED", "OK", "ENOSPC"}}
    \cup {[id |-> "other", action |-> "status", file_id |-> 0, status |-> "OK"]}

\* Send.__init__, SendManager.__init__, Loop.__init__
Constructed ==
    /\ manager = [state |-> "waiting_for_permission", all_acknowledged |-> FALSE,
                  all_started |-> FALSE, active_idx |-> None,
                  current_chunk_uncompressed_sz |-> None,
                  progress |-> [total_transferred |-> 0], produced |-> 0]
    /\ handler = [transmit_started |-> FALSE, file_metadata_sent |-> FALSE,
                  quit_after_write_code |-> None, check_paths_printed |-> FALSE,
                  done_files |-> <<>>, failed_files |-> <<>>]
    /\ loop = [initialized |-> FALSE, running |-> TRUE, return_code |-> 0,
               exit_path |-> "none", ticks |-> 0, write_buf |-> FALSE,
               refresh |-> FALSE, timers |-> 0]
    /\ wire = <<>>
    /\ n_events = 0

\* send_main: a session for any options and any plan
Init ==
    /\ cli_opts \in [permissions_password : BOOLEAN, confirm_paths : BOOLEAN]
    /\ files \in Plans
    /\ Constructed
    /\ args = <<>>
    /\ ans = <<>>

Running == loop.initialized /\ loop.running

\* Loop.loop calls handler.initialize() before it runs the loop
Initialize ==
    /\ ~loop.initialized
    /\ Becomes(initialize(Cur))
    /\ UNCHANGED <<cli_opts, n_events, args, ans>>

\* the terminal delivers a parsed frame
OnFileTransferResponse ==
    /\ Running
    /\ n_events < MaxEvents
    /\ loop.ticks < MaxTicks
    /\ \E ftc \in Inbound : Becomes(Send_on_file_transfer_response(Cur, ftc))
    /\ n_events' = n_events + 1
    /\ UNCHANGED <<cli_opts, args, ans>>

\* a loop_tick scheduled with call_soon runs
LoopTick ==
    /\ Running
    /\ loop.ticks > 0
    /\ Becomes(loop_tick([Cur EXCEPT !.loop.ticks = @ - 1]))
    /\ UNCHANGED <<cli_opts, n_events, args, ans>>

\* the write buffer drained
WriteDrain ==
    /\ Running
    /\ loop.write_buf
    /\ Becomes(on_writing_finished([Cur EXCEPT !.loop.write_buf = FALSE]))
    /\ UNCHANGED <<cli_opts, n_events, args, ans>>

\* a refresh_progress scheduled by on_file_done or draw_progress runs
RefreshProgress ==
    /\ Running
    /\ loop.refresh
    /\ Becomes(refresh_progress(Cur))
    /\ UNCHANGED <<cli_opts, n_events, args, ans>>

\* the forced exit scheduled by abort_transfer: call_later(delay, quit_loop, 1)
ForcedQuit ==
    /\ Running
    /\ loop.timers > 0
    /\ Becomes(quit_loop([Cur EXCEPT !.loop.timers = @ - 1], 1, "timeout"))
    /\ UNCHANGED <<cli_opts, n_events, args, ans>>

OnText ==
    /\ Running
    /\ n_events < MaxEvents
    /\ \E text \in Texts : Becomes(on_text(Cur, text))
    /\ n_events' = n_events + 1
    /\ UNCHANGED <<cli_opts, args, ans>>

OnKey ==
    /\ Running
    /\ n_events < MaxEvents
    /\ Becomes(on_key(Cur))
    /\ n_events' = n_events + 1
    /\ UNCHANGED <<cli_opts, args, ans>>

OnInterrupt ==
    /\ Running
    /\ n_events < MaxEvents
    /\ Becomes(on_interrupt(Cur))
    /\ n_events' = n_events + 1
    /\ UNCHANGED <<cli_opts, args, ans>>

OnTerm ==
    /\ Running
    /\ n_events < MaxEvents
    /\ Becomes(on_term(Cur))
    /\ n_events' = n_events + 1
    /\ UNCHANGED <<cli_opts, args, ans>>

Next ==
    \/ Initialize
    \/ OnFileTransferResponse
    \/ LoopTick
    \/ WriteDrain
    \/ RefreshProgress
    \/ ForcedQuit
    \/ OnText
    \/ OnKey
    \/ OnInterrupt
    \/ OnTerm

Spec == Init /\ [][Next]_vars

\* One session for the questions of termination: no password, a regular
\* file and a symlink. call_later(delay, quit_loop, 1) is a timer of the
\* running loop: it fires once its delay has passed, unless the loop has
\* stopped before.
InitOnePlan ==
    /\ Init
    /\ ~cli_opts.permissions_password
    /\ files = [i \in Files |-> IF i = 1 THEN File("regular", MaxFileSize, MaxFrames)
                                         ELSE File("symlink", 1, 0)]

FairSpec == InitOnePlan /\ [][Next]_vars /\ WF_vars(ForcedQuit)

\* ------------------------------------------------- File.next_chunk alone
\* Files to read: regular files of every size from empty to past two reads
\* (so 0, less than a read, exactly one read, exactly two reads occur),
\* symlinks and a hard link, as they are when the manager has started them.
TestSizes == 0..(MaxFileSize + ChunkSz)
TestFiles ==
    {[File("regular", sz, zf) EXCEPT !.state = "transmitting"] :
        sz \in TestSizes, zf \in {0, MaxFrames}}
    \cup {[File("symlink", sz, 0) EXCEPT !.state = "transmitting"] : sz \in 1..MaxFileSize}
    \cup {[File("link", MaxFileSize, 0) EXCEPT !.state = "transmitting"]}

\* ans[i]: the uncompressed sizes returned by the calls on files[i] so far
ChunkInit ==
    /\ cli_opts = [permissions_password |-> FALSE, confirm_paths |-> FALSE]
    /\ files \in [Files -> TestFiles]
    /\ Constructed
    /\ args = files
    /\ ans = [i \in Files |-> <<>>]

\* one call of next_chunk on a file that is not finished (the condition of
\* the read loop of next_chunks)
NextChunk(i) ==
    /\ files[i].state # "finished"
    /\ LET r == next_chunk(files[i])
       IN /\ files' = [files EXCEPT ![i] = r.file]
          /\ ans' = [ans EXCEPT ![i] = Append(@, r.usz)]
    /\ UNCHANGED <<cli_opts, manager, handler, loop, wire, n_events, args>>

ChunkNext == \E i \in Files : NextChunk(i)

ChunkSpec == ChunkInit /\ [][ChunkNext]_vars

\* ------------------------------------------------------ files_for_send
\* The source tree as process sees it. A file is its (device, inode); for
\* each, stat[i] holds the kind os.stat reports (special: a socket, fifo or
\* device), the entries os.listdir gives for a directory, and what
\* os.readlink and the following os.stat give for a symlink: None for an
\* OSError of readlink, 0 for a target that cannot be stat'ed, else the
\* target's inode. A path is written as the inode it names: two names of
\* one file, or one path given twice, are the same inode twice.
Inodes == 1..MaxInodes
SeqsUpTo(S, n) == UNION {[1..k -> S] : k \in 0..n}
Nodes(i) ==
    {[kind |-> k, ino |-> i, children |-> <<>>, readlink |-> None] :
        k \in {"regular", "special"}}
    \cup {[kind |-> "symlink", ino |-> i, children |-> <<>>, readlink |-> r] :
        r \in {None, 0} \cup (Inodes \ {i})}
    \cup {[kind |-> "directory", ino |-> i, children |-> c, readlink |-> None] :
        c \in SeqsUpTo(Inodes \ {i}, MaxPaths - 1)}

\* One file system: the entries of a directory are not directories (trees
\* of depth one), and os.stat, which follows symlinks, never reports the
\* inode of a symlink.
FileSystems ==
    {st \in [Inodes -> UNION {Nodes(i) : i \in Inodes}] :
        \A i \in Inodes :
            /\ st[i].ino = i
            /\ \A k \in 1..Len(st[i].children) : st[st[i].children[k]].kind # "directory"
            /\ st[i].readlink \in Inodes => st[st[i].readlink].kind # "symlink"}

\* the file system and the paths given on the command line
Trees == [stat : FileSystems, paths : SeqsUpTo(Inodes, MaxPaths) \ {<<>>}]

\* hex(file_id)[2:]
HexDigits == <<"0", "1", "2", "3", "4", "5", "6", "7", "8", "9", "a", "b", "c", "d", "e", "f">>
RECURSIVE Hex(_)
Hex(n) ==
    IF n < 16 THEN <<HexDigits[n + 1]>> ELSE Hex(n \div 16) \o <<HexDigits[(n % 16) + 1]>>

\* File.__init__ as the planner uses it: local_path is the path with its
\* stat result, x
PlanFile(x, file_id, file_type) ==
    [local_path |-> x, file_id |-> Hex(file_id), file_hash |-> x.ino,
     file_type |-> file_type, hard_link_target |-> <<>>, symbolic_link_target |-> <<>>]

\* process: <<files yielded, the counter after them>>
RECURSIVE process(_, _, _)
process(stat, paths, counter) ==
    IF paths = <<>> THEN [files |-> <<>>, counter |-> counter]
    ELSE LET x == stat[Head(paths)]
             own == IF x.kind = "directory"
                    THEN LET sub == process(stat, x.children, counter + 1)
                         IN [files |-> <<PlanFile(x, counter, "directory")>> \o sub.files,
                             counter |-> sub.counter]
                    ELSE IF x.kind \in {"symlink", "regular"}
                    THEN [files |-> <<PlanFile(x, counter, x.kind)>>, counter |-> counter + 1]
                    ELSE [files |-> <<>>, counter |-> counter]
             rest == process(stat, Tail(paths), own.counter)
         IN [files |-> own.files \o rest.files, counter |-> rest.counter]

\* groups[file_hash]: the positions of the files with that hash, in order;
\* group[0] is the least
Group(fs, h) == {k \in 1..Len(fs) : fs[k].file_hash = h}

\* the hard-link pass marking every file of a group, the first included
detect_hard_links_whole_group(fs) ==
    [k \in 1..Len(fs) |->
        LET group == Group(fs, fs[k].file_hash)
        IN IF Cardinality(group) > 1
           THEN [fs[k] EXCEPT !.file_type = "link",
                              !.hard_link_target = fs[Min(group)].file_id]
           ELSE fs[k]]

\* files_for_send, lines 173-182: detect hard links
detect_hard_links(fs) ==
    [k \in 1..Len(fs) |->
        LET group == Group(fs, fs[k].file_hash)
        IN IF Cardinality(group) > 1 /\ k # Min(group)
           THEN [fs[k] EXCEPT !.file_type = "link",
                              !.hard_link_target = fs[Min(group)].file_id]
           ELSE fs[k]]

\* files_for_send, lines 184-205: detect symlinks to other transferred
\* files; a symlink whose readlink fails is removed from the list
RECURSIVE detect_symlinks(_, _)
detect_symlinks(fs, all) ==
    IF fs = <<>> THEN <<>>
    ELSE LET f == Head(fs)
             rest == detect_symlinks(Tail(fs), all)
         IN IF f.file_type # "symlink" THEN <<f>> \o rest
            ELSE IF f.local_path.readlink = None THEN rest
            ELSE LET g == Group(all, f.local_path.readlink)
                 IN <<[f EXCEPT !.symbolic_link_target =
                          IF g # {} THEN <<"fid:">> \o all[Min(g)].file_id
                          ELSE <<"path:", f.local_path.readlink>>]>> \o rest

\* args: the source tree; ans: the list files, and how far files_for_send
\* has come
PlanInit ==
    /\ cli_opts = [permissions_password |-> FALSE, confirm_paths |-> FALSE]
    /\ files = [i \in Files |-> File("regular", MaxFileSize, 0)]
    /\ Constructed
    /\ args \in Trees
    /\ ans = [stage |-> "start", files |-> <<>>]

PlanStep(from, to, fs) ==
    /\ ans.stage = from
    /\ ans' = [stage |-> to, files |-> fs]
    /\ UNCHANGED <<cli_opts, files, manager, handler, loop, wire, n_events, args>>

\* files = list(process_normal_files(cli_opts, args)): process with count(1)
ProcessFiles ==
    PlanStep("start", "processed", process(args.stat, args.paths, 1).files)

DetectHardLinks == PlanStep("processed", "hard_links", detect_hard_links(ans.files))

\* the symlink pass, and return tuple(files)
DetectSymlinks == PlanStep("hard_links", "returned", detect_symlinks(ans.files, ans.files))

PlanNext ==
    \/ ProcessFiles
    \/ DetectHardLinks
    \/ DetectSymlinks

PlanSpec == PlanInit /\ [][PlanNext]_vars

\* ------------------------------------------------------------- the claims
Indices(w, P(_)) == {k \in 1..Len(w) : P(w[k])}
IsFinish(fr) == fr.action = "finish"
IsCancel(fr) == fr.action = "cancel"
IsData(fr) == fr.action \in {"data", "end_data"}
IsFileOutput(fr) == fr.action \in {"file", "data", "end_data"}

FinishCount == Cardinality(Indices(wire, IsFinish))
EndDataCount(i) == Cardinality({k \in 1..Len(wire) : wire[k] = Frame("end_data", i)})
MetadataCount(i) == Cardinality({k \in 1..Len(wire) : wire[k] = Frame("file", i)})
AllAcknowledged == \A i \in Files : files[i].state = "acknowledged"
StartedReceived(i) == files[i].remote_initial_size # None

\* C1: a session that ends through the completion path (finish emitted,
\* then quit_loop(quit_after_write_code) from on_writing_finished) exits
\* with code 1 if some file has an error message and with code 0 if none has.
C1_ExitCodeReflectsErrors ==
    loop.exit_path = "completion" =>
        loop.return_code = IF \E i \in Files : files[i].err_msg # "" THEN 1 ELSE 0

\* C2: the finish frame is emitted at most once in a session.
C2_FinishAtMostOnce == FinishCount <= 1

\* C3: while permission is granted and no cancel occurred, once every file
\* is acknowledged the sender eventually emits finish and the loop exits.
\* The loop only ever runs what is pending: a scheduled loop_tick or
\* refresh_progress, a drain of the write buffer, a timer. So the claim
\* needs that the loop never comes to rest with nothing pending in a granted
\* session whose files are all acknowledged and whose finish is not out
\* (stated for sessions without confirm_paths, which never wait for the
\* user).
Idle ==
    /\ Running
    /\ loop.ticks = 0
    /\ ~loop.write_buf
    /\ ~loop.refresh
    /\ loop.timers = 0
C3_Completes ==
    (/\ ~cli_opts.confirm_paths
     /\ manager.state = "permission_granted"
     /\ AllAcknowledged
     /\ FinishCount = 0) => ~Idle

\* C4: once the global state is canceled no file, data, end_data or finish
\* frame is emitted. abort_transfer writes the cancel frame in the step in
\* which it sets the state, and nothing resets the state, so on the wire:
\* after a cancel frame only cancel frames follow.
C4_SilentAfterCancel ==
    \A k \in Indices(wire, IsCancel) : \A j \in (k + 1)..Len(wire) : IsCancel(wire[j])

\* C5: in a session that reached the finish frame, every file that is not a
\* directory and whose STARTED was received has exactly one end_data frame.
C5_ExactlyOneEndData ==
    FinishCount > 0 =>
        \A i \in Files :
            (files[i].file_type # "directory" /\ StartedReceived(i)) => EndDataCount(i) = 1

\* C6: the send frame is the first frame emitted and is emitted once, each
\* plan entry's metadata frame is emitted at most once, and every data or
\* end_data frame comes after the metadata frames of all plan entries.
C6_FrameOrdering ==
    /\ \A k \in 1..Len(wire) : (wire[k].action = "send") <=> (k = 1)
    /\ \A i \in Files : MetadataCount(i) <= 1
    /\ \A k \in Indices(wire, IsData) :
           \A i \in Files : \E j \in 1..(k - 1) : wire[j] = Frame("file", i)

\* a session with a password in which STARTED came before the grant and
\* data was sent
C6_Witness ==
    /\ cli_opts.permissions_password
    /\ Indices(wire, IsData) # {}
    /\ \E i \in Files : EndDataCount(i) = 1

\* C7: finish is emitted only when every file is acknowledged, and once it
\* has been emitted no file leaves acknowledged.
C7_FinishOnlyWhenAcknowledged == FinishCount > 0 => AllAcknowledged

\* finish was emitted and the loop has run on after it
C7_Witness == FinishCount > 0 /\ ~loop.running

\* C8: from the first data or end_data frame of a file to its (first)
\* end_data frame, no data or end_data frame of another file is emitted.
C8_DataContiguous ==
    \A i \in Files :
        LET mine == {k \in Indices(wire, IsData) : wire[k].file_id = i}
            ends == {k \in mine : wire[k].action = "end_data"}
        IN ends # {} =>
               \A b \in Min(mine)..Min(ends) : IsData(wire[b]) => wire[b].file_id = i

\* C9: a step that emits data or end_data frames (next_chunks produced a
\* chunk group) starts with no chunk group in flight.
C9_Backpressure ==
    [][(\E k \in (Len(wire) + 1)..Len(wire') : IsData(wire'[k]))
         => manager.current_chunk_uncompressed_sz = None]_vars

\* C10: without a password, a session-level status other than OK (and
\* other than CANCELED) that arrives in waiting_for_permission makes the
\* state permission_denied and quits the loop with code 1, and the session
\* has emitted no file, data or end_data frame.
DenyFrames == {ftc \in Inbound : ftc.id = RequestId /\ ftc.file_id = 0 /\ ftc.status \notin {"OK", "CANCELED"}}
Denied(s) ==
    /\ s.manager.state = "permission_denied"
    /\ ~s.loop.running
    /\ s.loop.return_code = 1
    /\ Indices(s.wire, IsFileOutput) = {}
LocalCancel == Indices(wire, IsCancel) # {}
C11_CancelExitsNonZero == (LocalCancel /\ ~loop.running) => loop.return_code = 1

\* C12: after a local cancel (abort_transfer: cancel frame written, state
\* canceled, forced quit scheduled) the loop eventually exits, whatever the
\* receiver does or does not send, provided the timer callback runs.
C12_CancelTerminates == LocalCancel ~> ~loop.running

\* the loop was stopped by the forced quit of a local cancel
C12_Witness == LocalCancel /\ loop.exit_path = "timeout"

\* C13: with confirm_paths, a step emits data or end_data only when every
\* file has left waiting_for_start and the plan was printed, and only when
\* the user has typed 'y' (transmission was started by on_text("y"), in
\* this step or before); 'n' or Escape at the prompt emits a cancel frame,
\* and after a cancel that came before any data no data is ever emitted.
EmitsData == \E k \in (Len(wire) + 1)..Len(wire') : IsData(wire'[k])
AtPrompt ==
    /\ Running
    /\ handler.quit_after_write_code = None
    /\ handler.check_paths_printed
    /\ ~handler.transmit_started
CanceledBeforeData ==
    \E k \in Indices(wire, IsCancel) : \A j \in 1..(k - 1) : ~IsData(wire[j])
C13_DataAfterPlan ==
    EmitsData => /\ \A i \in Files : files[i].state # "waiting_for_start"
                 /\ manager.all_started
                 /\ handler.check_paths_printed
C13_DataAfterYes ==
    /\ EmitsData => (handler.transmit_started \/ Becomes(on_text(Cur, "y")))
    /\ (~handler.transmit_started /\ handler'.transmit_started) =>
           (AtPrompt /\ Becomes(on_text(Cur, "y")))
C13_RefusalCancels ==
    (AtPrompt /\ (Becomes(on_text(Cur, "n")) \/ Becomes(on_key(Cur)))) =>
        /\ wire' = Append(wire, Frame("cancel", 0))
        /\ manager'.state = "canceled"
        /\ ~handler'.transmit_started
C13_RefusalIsFinal == EmitsData => ~CanceledBeforeData
C13_ConfirmPaths ==
    [][cli_opts.confirm_paths =>
         /\ C13_DataAfterPlan
         /\ C13_DataAfterYes
         /\ C13_RefusalCancels
         /\ C13_RefusalIsFinal]_vars

\* C14: a frame with the session's request id and status CANCELED that
\* arrives before finish was emitted stops the loop with exit code 1 in
\* every global state, emits no frame, and leaves the manager's state and
\* every file's state as they were.
CancelFrames ==
    {[id |-> RequestId, action |-> "status", file_id |-> i, status |-> "CANCELED"] :
        i \in {0} \cup Files}
CanceledByReceiver(s, r) ==
    /\ ~r.loop.running
    /\ r.loop.return_code = 1
    /\ r.wire = s.wire
    /\ r.manager = s.manager
    /\ r.files = s.files
C14_ReceiverCancel ==
    /\ (Running /\ FinishCount = 0) =>
           \A ftc \in CancelFrames :
               CanceledByReceiver(Cur, Send_on_file_transfer_response(Cur, ftc))
    /\ loop.exit_path = "canceled_by_receiver" =>
           (~loop.running /\ loop.return_code = 1)

\* the receiver's CANCELED arrived after a local cancel, in mid-transfer
C14_Witness ==
    /\ loop.exit_path = "canceled_by_receiver"
    /\ manager.state = "canceled"
    /\ Indices(wire, IsData) # {}
    /\ FinishCount = 0

\* C15: the uncompressed sizes returned by the successive next_chunk calls
\* on a file add up to the file's size (regular file) or to the length of
\* its link target (symlink, hard link) when the file is finished, and the
\* file is finished exactly when a call has brought the sum to that number:
\* no call is made after the last byte, none is missing.
RECURSIVE Sum(_)
Sum(seq) == IF seq = <<>> THEN 0 ELSE Head(seq) + Sum(Tail(seq))
ExpectedSize(f) == IF f.file_type = "regular" THEN f.file_size ELSE target_len(f)
C15_ChunkSizes ==
    \A i \in Files :
        /\ Sum(ans[i]) <= ExpectedSize(files[i])
        /\ files[i].state = "finished" <=>
               (ans[i] # <<>> /\ Sum(ans[i]) = ExpectedSize(files[i]))

\* an empty file and a file of exactly two reads were both read to the end
C15_Witness ==
    /\ files[1].file_type = "regular" /\ files[1].file_size = 0
    /\ files[2].file_type = "regular" /\ files[2].file_size = 2 * ChunkSz
    /\ files[1].state = "finished" /\ ans[1] = <<0>>
    /\ files[2].state = "finished" /\ ans[2] = <<ChunkSz, ChunkSz>>

\* C16: in every plan files_for_send returns, with N files, the file ids
\* are exactly the rendered numbers 1..N and the file at position i has
\* the id lowercase-hex(i).
C16_IdsArePositions ==
    ans.stage = "returned" =>
        LET N == Len(ans.files)
        IN /\ {ans.files[i].file_id : i \in 1..N} = {Hex(i) : i \in 1..N}
           /\ \A i \in 1..N : ans.files[i].file_id = Hex(i)

\* C17: after the hard-link pass, among the files that share a (device,
\* inode) the first in walk order has a type other than link and every
\* other one has type link with hard_link_target equal to the first one's
\* id; a file alone in its group is as process yielded it.
SameInode(fs, k) == {j \in 1..Len(fs) : fs[j].file_hash = fs[k].file_hash}
C17_HardLinkGroups ==
    ans.stage = "hard_links" =>
        LET fs == ans.files
            yielded == process(args.stat, args.paths, 1).files
        IN /\ Len(fs) = Len(yielded)
           /\ \A k \in 1..Len(fs) :
                  LET first == Min(SameInode(fs, k))
                  IN /\ fs[first].file_type # "link"
                     /\ fs[first] = yielded[first]
                     /\ k # first =>
                            /\ fs[k].file_type = "link"
                            /\ fs[k].hard_link_target = fs[first].file_id

\* the pass has run on files of which two share an inode and one is alone
C17_Witness ==
    /\ ans.stage = "hard_links"
    /\ \E k \in 1..Len(ans.files) : Cardinality(SameInode(ans.files, k)) > 1
    /\ \E k \in 1..Len(ans.files) : Cardinality(SameInode(ans.files, k)) = 1

\* C18: in every state between handlers, active_idx is None or the index
\* of a file whose state is transmitting.
C18_ActiveIsTransmitting ==
    manager.active_idx # None => files[manager.active_idx].state = "transmitting"

\* C18 as amended: active_idx is None or the index of a file whose state is
\* transmitting or finished (the file next_chunk has just finished stays
\* the active index until the next activation or its terminal status).
C18_ActiveIsTransmittingOrFinished ==
    manager.active_idx # None =>
        files[manager.active_idx].state \in {"transmitting", "finished"}

\* the active file was read to its end and is still the active index,
\* while the other file is ready to be sent
C18_Witness ==
    /\ manager.active_idx # None
    /\ files[manager.active_idx].state = "finished"
    /\ \E i \in Files : files[i].state = "transmitting"

\* C19: in every state between handlers, all_acknowledged is true exactly
\* when every file is acknowledged and all_started is true exactly when no
\* file is in waiting_for_start.
C19_CollectiveStatuses ==
    /\ manager.all_acknowledged <=> \A i \in Files : files[i].state = "acknowledged"
    /\ manager.all_started <=> \A i \in Files : files[i].state # "waiting_for_start"

\* chunk production has finished one file (its end_data is out, no status
\* frame has followed) while the other file is acknowledged
C19_Witness ==
    /\ \E i \in Files : files[i].state = "finished" /\ EndDataCount(i) > 0
    /\ \E i \in Files : files[i].state = "acknowledged"
    /\ manager.all_started
    /\ ~manager.all_acknowledged

\* C20: a session-level status frame (no file id) changes the global state
\* only in waiting_for_permission: delivered in permission_granted or
\* permission_denied it leaves the global state as it is.
SessionFrames ==
    {ftc \in Inbound : ftc.id = RequestId /\ ftc.action = "status" /\ ftc.file_id = 0}
C20_SessionStatusOnlyWhenWaiting ==
    [][(/\ manager.state \in {"permission_granted", "permission_denied"}
        /\ \E ftc \in SessionFrames : Becomes(Send_on_file_transfer_response(Cur, ftc)))
           => manager'.state = manager.state]_vars

\* C22: the state of a file only moves forward: a file that is
\* acknowledged stays acknowledged, and a file that is finished does not
\* return to transmitting or waiting_for_data, whatever frame arrives.
C22_StateMovesForward ==
    [][\A i \in Files :
         /\ files[i].state = "acknowledged" => files'[i].state = "acknowledged"
         /\ files[i].state = "finished" =>
                files'[i].state \notin {"transmitting", "waiting_for_data"}]_vars

\* C23: at most one cancel frame is emitted in a session and at most one
\* forced exit is scheduled: in state canceled no further interrupt,
\* terminate signal, Escape or 'n' emits a cancel frame or schedules a quit.
CancelCount == Cardinality(Indices(wire, IsCancel))
C23_CancelAtMostOnce == CancelCount <= 1 /\ loop.timers <= 1

\* C21: a terminal per-file status is idempotent: in every reachable state,
\* delivering a terminal status frame (OK or an error string) for a file
\* and then the same frame again leaves the file's state and error
\* message, active_idx, all_started, all_acknowledged and the handler's
\* done and failed file lists as the first delivery left them.
TerminalFrames == {ftc \in Inbound : ftc.file_id \in Files /\ ftc.status # "STARTED"}
TerminalView(s, i) ==
    <<s.files[i].state, s.files[i].err_msg, s.manager.active_idx,
      s.manager.all_started, s.manager.all_acknowledged,
      s.handler.done_files, s.handler.failed_files>>
C21_TerminalIdempotent ==
    \A ftc \in TerminalFrames :
        LET once == Send_on_file_transfer_response(Cur, ftc)
            twice == Send_on_file_transfer_response(once, ftc)
        IN TerminalView(twice, ftc.file_id) = TerminalView(once, ftc.file_id)
\* the terminal status of the active file has been delivered with an
\* error: the file is acknowledged, recorded as done and failed, and no
\* file is active
C21_Witness ==
    \E i \in Files :
        /\ files[i].state = "acknowledged" /\ files[i].err_msg # ""
        /\ manager.active_idx = None
        /\ handler.done_files = <<i>> /\ handler.failed_files = <<i>>
        /\ loop.running

\* C24: progress accounting loses no bytes: when the loop has exited
\* through the completion path, progress.total_transferred equals the sum
\* of the uncompressed sizes of all chunk groups next_chunks has produced.
C24_NoBytesLost ==
    (~loop.running /\ loop.exit_path = "completion")
        => manager.progress.total_transferred = manager.produced

====
